---- MODULE Spec2Model ----
(***************************************************************************)
(* Model of libsql-server/sqld/src/query_analysis.rs: the statement        *)
(* classifier (StmtKind::kind, StmtKind::pragma_kind), the statement       *)
(* iterator (Statement::parse) and the transaction state machine           *)
(* (State::step, State::reset, predict_final_state).                       *)
(***************************************************************************)
EXTENDS Integers, Sequences, FiniteSets

VARIABLES
    cmd,        \* classifier: the command handed to StmtKind::kind
    kindRes,    \* classifier: the Option<StmtKind> it returned ("unset" before the call)
    input,      \* parse: what the command source holds for the text, in order
    ppos,       \* parse: how many items the command source has handed out
    asked,      \* parse: how many times parser.next() has been called
    out,        \* parse: the items the iterator has yielded so far
    lastCall,   \* parse: what the latest call of the iterator did
    state,      \* state machine: the State value of the session
    trace,      \* state machine: the kinds stepped through since Init / reset()
    lastOp,     \* state machine: the latest operation ("none", "step", "reset", "predict")
    prev,       \* state machine: the state before the latest operation
    lastArg,    \* state machine: the kinds the latest operation was given
    predicted,  \* state machine: the value the latest predict_final_state returned
    pArgs,      \* fold: the arguments of predict_final_state and a cut position
    pRes        \* fold: the results of the three calls

vars == <<cmd, kindRes, input, ppos, asked, out, lastCall, state, trace, lastOp,
          prev, lastArg, predicted, pArgs, pRes>>

kindVars  == <<cmd, kindRes>>
parseVars == <<input, ppos, asked, out, lastCall>>
stepVars  == <<state, trace, lastOp, prev, lastArg, predicted>>
foldVars  == <<pArgs, pRes>>

(***************************************************************************)
(* Bounds of the model.                                                    *)
(***************************************************************************)
MaxCmds    == 3   \* items the command source holds for one text
ExtraCalls == 2   \* calls of the iterator beyond the items of the text
MaxSteps   == 4   \* kinds stepped through or predicted over since Init / reset()
MaxBatch   == 2   \* statements in one batch given to predict_final_state
MaxLen     == 3   \* statements in the sequence that is cut in two

(***************************************************************************)
(* StmtKind, Option<StmtKind> and State.                                   *)
(***************************************************************************)
StmtKind == {"TxnBegin", "TxnEnd", "Read", "Write", "Other"}
NoKind   == "None"
States   == {"Txn", "Init", "Invalid"}

(***************************************************************************)
(* Commands (sqlite3_parser::ast::Cmd), reduced to the fields the          *)
(* classifier reads: the variant, the temporary flag, the database name    *)
(* qualifying the target, and for a pragma its name and whether it has a   *)
(* body.  NoName is an absent Option<Name>.                                *)
(***************************************************************************)
NoName == ""
DbNames == {NoName, "TEMP", "temp", "main"}

MkCmd(tag, temporary, db, name, body) ==
    [tag |-> tag, temporary |-> temporary, db_name |-> db, name |-> name, body |-> body]

PlainCmd(tag) == MkCmd(tag, FALSE, NoName, NoName, FALSE)

ReadPragmas ==
    {"table_list", "index_list", "table_info", "table_xinfo", "index_xinfo",
     "pragma_list", "compile_options", "database_list", "function_list",
     "module_list"}

EncodingPragmas == {"encoding"}

PrimaryPragmas ==
    {"foreign_key", "foreign_key_list", "foreign_key_check", "collation_list",
     "data_version", "freelist_count", "integrity_check", "legacy_file_format",
     "page_count", "quick_check", "stats"}

ConfigPragmas ==
    {"analysis_limit", "application_id", "auto_vacuum", "automatic_index",
     "busy_timeout", "cache_size", "cache_spill", "cell_size_check",
     "checkpoint_fullfsync", "defer_foreign_keys", "fullfsync",
     "hard_heap_limit", "journal_mode", "journal_size_limit",
     "legacy_alter_table", "locking_mode", "max_page_count", "mmap_size",
     "page_size", "query_only", "read_uncommitted", "recursive_triggers",
     "reverse_unordered_selects", "schema_version", "secure_delete",
     "soft_heap_limit", "synchronous", "temp_store", "threads",
     "trusted_schema", "user_version", "wal_autocheckpoint"}

DeniedPragmas ==
    {"case_sensitive_like", "ignore_check_constraints", "incremental_vacuum",
     "optimize", "parser_trace", "shrink_memory", "wal_checkpoint"}

\* Pragma names that no arm of pragma_kind lists.
UnknownPragmas == {"made_up_pragma", "CACHE_SIZE", "foreign_keys"}

PragmaNames ==
    ReadPragmas \cup EncodingPragmas \cup PrimaryPragmas \cup ConfigPragmas
        \cup DeniedPragmas \cup UnknownPragmas

\* Variants of Stmt that no arm of StmtKind::kind lists.
OtherTags ==
    {"Vacuum", "Attach", "Detach", "CreateView", "DropIndex", "DropTrigger",
     "DropView", "Savepoint", "Release", "Reindex", "Analyze"}

SimpleTags ==
    {"Explain", "ExplainQueryPlan", "Begin", "Commit", "Rollback", "Insert",
     "Update", "Delete", "DropTable", "AlterTable", "CreateIndex", "Select"}

AllCmds ==
    {PlainCmd(t) : t \in SimpleTags \cup OtherTags}
    \cup {MkCmd("CreateVirtualTable", FALSE, d, NoName, FALSE) : d \in DbNames}
    \cup {MkCmd("CreateTable", t, d, NoName, FALSE) : t \in BOOLEAN, d \in DbNames}
    \cup {MkCmd("CreateTrigger", t, d, NoName, FALSE) : t \in BOOLEAN, d \in DbNames}
    \cup {MkCmd("Pragma", FALSE, NoName, n, b) : n \in PragmaNames, b \in BOOLEAN}

(***************************************************************************)
(* The classifier.                                                         *)
(***************************************************************************)
is_temp_negated(db_name) == db_name # "TEMP"

is_temp(db_name) == db_name = "TEMP"

pragma_kind_config_ignores_body(name, body) ==
    IF name \in ReadPragmas THEN "Read"
    ELSE IF name \in EncodingPragmas THEN "Read"
    ELSE IF name \in PrimaryPragmas THEN "Write"
    ELSE IF name \in ConfigPragmas THEN "Write"
    ELSE NoKind

pragma_kind(name, body) ==
    IF name \in ReadPragmas THEN "Read"
    ELSE IF name \in EncodingPragmas THEN "Read"
    ELSE IF name \in PrimaryPragmas THEN "Write"
    ELSE IF name \in ConfigPragmas THEN (IF body THEN NoKind ELSE "Write")
    ELSE IF name \in DeniedPragmas THEN NoKind
    ELSE NoKind

kind(c) ==
    IF c.tag \in {"Explain", "ExplainQueryPlan"} THEN "Other"
    ELSE IF c.tag = "Begin" THEN "TxnBegin"
    ELSE IF c.tag \in {"Commit", "Rollback"} THEN "TxnEnd"
    ELSE IF (c.tag = "CreateVirtualTable" \/ (c.tag = "CreateTable" /\ ~c.temporary))
            /\ ~is_temp(c.db_name)
         THEN "Write"
    ELSE IF c.tag \in {"Insert", "Update", "Delete", "DropTable", "AlterTable",
                       "CreateIndex"}
            \/ (c.tag = "CreateTrigger" /\ ~c.temporary)
         THEN "Write"
    ELSE IF c.tag = "Select" THEN "Read"
    ELSE IF c.tag = "Pragma" THEN pragma_kind(c.name, c.body)
    ELSE NoKind

(***************************************************************************)
(* The transaction state machine.                                          *)
(***************************************************************************)
step_end_always_closes(s, k) ==
    IF s = "Txn" /\ k = "TxnBegin" THEN "Invalid"
    ELSE IF k = "TxnEnd" THEN "Init"
    ELSE IF k \in {"Other", "Write", "Read"} THEN s
    ELSE IF s = "Invalid" THEN "Invalid"
    ELSE "Txn"

step_invalid_recovers(s, k) ==
    IF (s = "Txn" /\ k = "TxnBegin") \/ (s = "Init" /\ k = "TxnEnd") THEN "Invalid"
    ELSE IF s = "Txn" /\ k = "TxnEnd" THEN "Init"
    ELSE IF k \in {"Other", "Write", "Read"} THEN s
    ELSE IF k = "TxnBegin" THEN "Txn"
    ELSE "Invalid"

step_nested_begin(s, k) ==
    IF s = "Init" /\ k = "TxnEnd" THEN "Invalid"
    ELSE IF s = "Txn" /\ k = "TxnEnd" THEN "Init"
    ELSE IF k \in {"Other", "Write", "Read"} THEN s
    ELSE IF s = "Invalid" THEN "Invalid"
    ELSE "Txn"

\* The value  *self  holds after  self.step(kind) ; the arms in source order.
step(s, k) ==
    IF (s = "Txn" /\ k = "TxnBegin") \/ (s = "Init" /\ k = "TxnEnd") THEN "Invalid"
    ELSE IF s = "Txn" /\ k = "TxnEnd" THEN "Init"
    ELSE IF k \in {"Other", "Write", "Read"} THEN s
    ELSE IF s = "Invalid" THEN "Invalid"
    ELSE "Txn"

reset(s) == "Init"

RECURSIVE fold_steps(_, _)
fold_steps(s, stmts) ==
    IF stmts = <<>> THEN s
    ELSE fold_steps(step(s, Head(stmts).kind), Tail(stmts))

predict_skips_first(s, stmts) ==
    IF stmts = <<>> THEN s ELSE fold_steps(s, Tail(stmts))

predict_final_state(s, stmts) == fold_steps(s, stmts)

(***************************************************************************)
(* Text.  A string is a sequence of pieces; a piece is the text of one     *)
(* command in one spelling.  The command source reads a command out of any *)
(* spelling of it; Cmd::to_string() writes the canonical spelling.         *)
(***************************************************************************)
Spellings == {"canonical", "as_written"}

Piece(c, sp) == [c |-> c, sp |-> sp]

to_string(c) == <<Piece(c, "canonical")>>

(***************************************************************************)
(* The command source (sqlite3_parser's Parser over the text).  For one    *)
(* text it holds a sequence of items: a command, a located syntax error    *)
(* (ParserError::SyntaxError with a found token and a position) or any     *)
(* other error.  What it holds after an error item is what it returns when *)
(* it is asked again after having reported that error.                     *)
(***************************************************************************)
NoCmd == PlainCmd("none")

ParseCmds ==
    {PlainCmd("Select"), PlainCmd("Insert"), PlainCmd("Vacuum"),
     MkCmd("CreateVirtualTable", FALSE, NoName, NoName, FALSE),
     MkCmd("Pragma", FALSE, NoName, "made_up_pragma", FALSE)}

Items ==
    {[type |-> "cmd", cmd |-> c, sp |-> sp] : c \in ParseCmds, sp \in Spellings}
    \cup {[type |-> "syntax", cmd |-> NoCmd, sp |-> "as_written"],
          [type |-> "error", cmd |-> NoCmd, sp |-> "as_written"]}

SeqsUpTo(S, n) == UNION {[1..m -> S] : m \in 0..n}

\* The substring of the text that item it was read from.
SrcOf(it) == <<Piece(it.cmd, it.sp)>>

\* The whole text  s  given to Statement::parse.
RECURSIVE TextOf(_)
TextOf(items) ==
    IF items = <<>> THEN <<>> ELSE SrcOf(Head(items)) \o TextOf(Tail(items))

EndOfInput == [type |-> "end", cmd |-> NoCmd, sp |-> "canonical"]

\* parser.next() with  pos  items already handed out.
parser_next(items, pos) ==
    IF pos < Len(items) THEN items[pos + 1] ELSE EndOfInput

(***************************************************************************)
(* Statement and Statement::parse.                                         *)
(***************************************************************************)
MkStatement(text, k, iud, ins) ==
    [stmt |-> text, kind |-> k, is_iud |-> iud, is_insert |-> ins]

empty == MkStatement(<<>>, "Read", FALSE, FALSE)

Ok(st)   == [tag |-> "Ok", stmt |-> st, msg |-> ""]
Err(msg) == [tag |-> "Err", stmt |-> empty, msg |-> msg]

Unsupported == "unsupported statement"
SyntaxMsg   == "syntax error around L:C: found"
OtherMsg    == "parser error"

parse_inner_defaults_to_empty(original, c) ==
    IF kind(c) = NoKind THEN Ok(empty)
    ELSE Ok(MkStatement(to_string(c), kind(c),
                        c.tag \in {"Insert", "Update", "Delete"}, c.tag = "Insert"))

parse_inner(original, c) ==
    LET k == kind(c) IN
    IF k = NoKind THEN Err(Unsupported)
    ELSE IF c.tag = "CreateVirtualTable"
         THEN Ok(MkStatement(original, k, FALSE, FALSE))
    ELSE Ok(MkStatement(to_string(c), k,
                        c.tag \in {"Insert", "Update", "Delete"}, c.tag = "Insert"))

is_read_only(st) == st.kind \in {"Read", "TxnEnd", "TxnBegin"}

\* What one call of the closure of Statement::parse returns for what
\* parser.next() returned; "None" ends the iteration.
yield(s, r) ==
    IF r.type = "cmd" THEN parse_inner(s, r.cmd)
    ELSE IF r.type = "syntax" THEN Err(SyntaxMsg)
    ELSE Err(OtherMsg)

IsSyntaxErr(o) == o.tag = "Err" /\ o.msg = SyntaxMsg

\* The statements predict_final_state is given: what parsing these commands yields.
BatchCmds ==
    {PlainCmd(t) : t \in {"Begin", "Commit", "Select", "Insert", "Update", "Explain"}}

StmtSamples == {parse_inner(to_string(c), c).stmt : c \in BatchCmds}

Kinds(stmts) == [i \in 1..Len(stmts) |-> stmts[i].kind]

(***************************************************************************)
(* Idle values of the parts a specification does not use.                  *)
(***************************************************************************)
NoCall == [ret |-> "unset", afterErr |-> FALSE, askedBefore |-> 0]
NoArgs == [initial |-> "Init", stmts |-> <<>>, cut |-> 0]
NoRes  == [called |-> FALSE, whole |-> "Init", first |-> "Init", split |-> "Init"]

KindIdle  == cmd = NoCmd /\ kindRes = "unset"
ParseIdle == input = <<>> /\ ppos = 0 /\ asked = 0 /\ out = <<>> /\ lastCall = NoCall
StepIdle  == /\ state = "Init" /\ trace = <<>> /\ lastOp = "none" /\ prev = "Init"
             /\ lastArg = <<>> /\ predicted = "Init"
FoldIdle  == pArgs = NoArgs /\ pRes = NoRes

(***************************************************************************)
(* SpecKind: StmtKind::kind applied to one command.                        *)
(***************************************************************************)
Classify ==
    /\ kindRes = "unset"
    /\ kindRes' = kind(cmd)
    /\ UNCHANGED <<cmd, parseVars, stepVars, foldVars>>

InitKind == cmd \in AllCmds /\ kindRes = "unset" /\ ParseIdle /\ StepIdle /\ FoldIdle
NextKind == Classify
SpecKind == InitKind /\ [][NextKind]_vars

(***************************************************************************)
(* SpecParse: the iterator Statement::parse(s) returns, called repeatedly. *)
(***************************************************************************)
IterNext ==
    /\ asked < Len(input) + ExtraCalls
    /\ LET r == parser_next(input, ppos) IN
         /\ asked' = asked + 1
         /\ ppos' = IF ppos < Len(input) THEN ppos + 1 ELSE ppos
         /\ out' = IF r.type = "end" THEN out ELSE Append(out, yield(TextOf(input), r))
         /\ lastCall' = [ret |-> IF r.type = "end" THEN "None" ELSE "Some",
                         afterErr |-> \E i \in 1..Len(out) : IsSyntaxErr(out[i]),
                         askedBefore |-> asked]
    /\ UNCHANGED <<input, kindVars, stepVars, foldVars>>

InitParse ==
    /\ input \in SeqsUpTo(Items, MaxCmds)
    /\ ppos = 0 /\ asked = 0 /\ out = <<>> /\ lastCall = NoCall
    /\ KindIdle /\ StepIdle /\ FoldIdle
NextParse == IterNext
SpecParse == InitParse /\ [][NextParse]_vars

(***************************************************************************)
(* SpecStep: one session's State, stepped, reset and predicted from.       *)
(***************************************************************************)
Step(k) ==
    /\ Len(trace) < MaxSteps
    /\ prev' = state
    /\ state' = step(state, k)
    /\ trace' = Append(trace, k)
    /\ lastOp' = "step"
    /\ lastArg' = <<k>>
    /\ UNCHANGED <<predicted, kindVars, parseVars, foldVars>>

Reset ==
    /\ prev' = state
    /\ state' = reset(state)
    /\ trace' = <<>>
    /\ lastOp' = "reset"
    /\ lastArg' = <<>>
    /\ UNCHANGED <<predicted, kindVars, parseVars, foldVars>>

Predict(stmts) ==
    /\ Len(trace) + Len(stmts) <= MaxSteps
    /\ predicted' = predict_final_state(state, stmts)
    /\ prev' = state
    /\ lastOp' = "predict"
    /\ lastArg' = Kinds(stmts)
    /\ UNCHANGED <<state, trace, kindVars, parseVars, foldVars>>

InitStep ==
    /\ state = "Init" /\ trace = <<>> /\ lastOp = "none" /\ prev = "Init"
    /\ lastArg = <<>> /\ predicted = "Init"
    /\ KindIdle /\ ParseIdle /\ FoldIdle
NextStep ==
    \/ \E k \in StmtKind : Step(k)
    \/ Reset
    \/ \E stmts \in SeqsUpTo(StmtSamples, MaxBatch) : Predict(stmts)
SpecStep == InitStep /\ [][NextStep]_vars

(***************************************************************************)
(* SpecFold: predict_final_state over a sequence, whole and cut in two.    *)
(***************************************************************************)
PredictCalls ==
    /\ ~pRes.called
    /\ LET A == SubSeq(pArgs.stmts, 1, pArgs.cut)
           B == SubSeq(pArgs.stmts, pArgs.cut + 1, Len(pArgs.stmts))
           first == predict_final_state(pArgs.initial, A)
       IN pRes' = [called |-> TRUE,
                   whole |-> predict_final_state(pArgs.initial, A \o B),
                   first |-> first,
                   split |-> predict_final_state(first, B)]
    /\ UNCHANGED <<pArgs, kindVars, parseVars, stepVars>>

InitFold ==
    /\ pArgs \in {[initial |-> s, stmts |-> q, cut |-> n] :
                    s \in States, q \in SeqsUpTo(StmtSamples, MaxLen), n \in 0..MaxLen}
    /\ pArgs.cut <= Len(pArgs.stmts)
    /\ pRes = NoRes
    /\ KindIdle /\ ParseIdle /\ StepIdle
NextFold == PredictCalls
SpecFold == InitFold /\ [][NextFold]_vars

(***************************************************************************)
(* Properties.                                                             *)
(***************************************************************************)

\* The transition table of the specification, row by row.
TransitionTable(s, k) ==
    IF s = "Invalid" THEN "Invalid"
    ELSE IF k \in {"Read", "Write", "Other"} THEN s
    ELSE IF s = "Init" /\ k = "TxnBegin" THEN "Txn"
    ELSE IF s = "Txn" /\ k = "TxnEnd" THEN "Init"
    ELSE "Invalid"

\* C1: for every state and category, State::step leaves the state the
\* transition table gives for that pair.
C1_StepFollowsTable ==
    lastOp = "step" => state = TransitionTable(prev, lastArg[1])

C1_Witness ==
    lastOp = "step" /\ prev = "Txn" /\ lastArg = <<"TxnEnd">> /\ state = "Init"

\* C2: Invalid is absorbing: a step taken in Invalid leaves the state Invalid,
\* and predict_final_state from Invalid returns Invalid for any statements.
C2_InvalidAbsorbing ==
    /\ (lastOp = "step" /\ prev = "Invalid") => state = "Invalid"
    /\ (lastOp = "predict" /\ prev = "Invalid") => predicted = "Invalid"

C2_Witness ==
    /\ lastOp = "predict" /\ prev = "Invalid"
    /\ lastArg = <<"TxnEnd", "TxnBegin">> /\ predicted = "Invalid"

RECURSIVE KindFold(_, _)
KindFold(s, ks) == IF ks = <<>> THEN s ELSE KindFold(step(s, Head(ks)), Tail(ks))

\* C3: predict_final_state over A followed by B equals predict_final_state
\* over B from the result of predict_final_state over A, and the result is
\* the fold of the ordered categories alone.
C3_FoldSplits ==
    pRes.called =>
        /\ pRes.whole = pRes.split
        /\ pRes.whole = KindFold(pArgs.initial, Kinds(pArgs.stmts))

C3_Witness ==
    /\ pRes.called /\ pArgs.initial = "Init" /\ pArgs.cut = 1
    /\ Kinds(pArgs.stmts) = <<"TxnBegin", "Write", "TxnEnd">>
    /\ pRes.first = "Txn" /\ pRes.whole = "Init"

\* C4: once the iterator has yielded a syntax error, every later call yields
\* nothing and does not ask the command source for another command.
C4_ExhaustedAfterSyntaxError ==
    lastCall.afterErr => (lastCall.ret = "None" /\ asked = lastCall.askedBefore)

\* C5: an unsupported command yields the "unsupported statement" error at its
\* position and never a Statement, a supported one yields a Statement, and
\* the enumeration goes on: one item per command fetched, and on the end of
\* the iteration one item per command of the text.
C5_UnsupportedDoesNotStop ==
    /\ Len(out) = ppos
    /\ \A i \in 1..Len(out) :
         input[i].type = "cmd" =>
            IF kind(input[i].cmd) = NoKind
            THEN out[i] = Err(Unsupported)
            ELSE out[i].tag = "Ok"
    /\ lastCall.ret = "None" => Len(out) = Len(input)

C5_Witness ==
    /\ Len(out) = 2 /\ lastCall.ret = "None"
    /\ input[1].cmd.tag = "Vacuum" /\ out[1] = Err(Unsupported)
    /\ input[2].cmd.tag = "Select" /\ out[2].tag = "Ok"

IsCreateVirtualTable(c) == c.tag = "CreateVirtualTable"
IsPlainCreateTable(c)   == c.tag = "CreateTable" /\ ~c.temporary

\* C6 as stated: every CREATE VIRTUAL TABLE is Write whatever qualifies its
\* table name, and every CREATE TABLE that is not temporary is Write.
C6_VirtualTableAlwaysWrite ==
    kindRes # "unset" =>
        /\ IsCreateVirtualTable(cmd) => kindRes = "Write"
        /\ (IsPlainCreateTable(cmd) /\ cmd.db_name # "TEMP") => kindRes = "Write"

\* C6 amended: a CREATE VIRTUAL TABLE, or a CREATE TABLE without the
\* TEMPORARY flag, is Write when its table name is not qualified with the
\* database name spelled exactly TEMP.
C6_WriteUnlessTempQualified ==
    (kindRes # "unset" /\ (IsCreateVirtualTable(cmd) \/ IsPlainCreateTable(cmd))
        /\ cmd.db_name # "TEMP") => kindRes = "Write"

C6_Witness ==
    IsCreateVirtualTable(cmd) /\ cmd.db_name = "temp" /\ kindRes = "Write"

\* C7: a CREATE TABLE or CREATE TRIGGER whose target is qualified with the
\* database name TEMP is never Write, whatever its TEMPORARY flag.
C7_TempQualifiedNeverWrite ==
    (kindRes # "unset" /\ cmd.tag \in {"CreateTable", "CreateTrigger"}
        /\ cmd.db_name = "TEMP") => kindRes # "Write"

\* C8: the text of the Statement of a CREATE VIRTUAL TABLE command is the
\* substring of the input that command was read from.
C8_VirtualTableTextIsItsSource ==
    \A i \in 1..Len(out) :
        (input[i].type = "cmd" /\ IsCreateVirtualTable(input[i].cmd)
            /\ out[i].tag = "Ok") => out[i].stmt.stmt = SrcOf(input[i])

\* C9: a configuration pragma is Write without an argument and unsupported
\* with one; for any other pragma name the outcome is the same with and
\* without an argument.
C9_ConfigPragmaArgument ==
    (kindRes # "unset" /\ cmd.tag = "Pragma") =>
        IF cmd.name \in ConfigPragmas
        THEN kindRes = (IF cmd.body THEN NoKind ELSE "Write")
        ELSE kindRes = kind([cmd EXCEPT !.body = ~cmd.body])

C9_Witness ==
    cmd.tag = "Pragma" /\ cmd.name = "cache_size" /\ cmd.body /\ kindRes = NoKind

Count(seq, k) == Cardinality({i \in 1..Len(seq) : seq[i] = k})

\* A TxnBegin arrived with more begins than ends before it, or a TxnEnd
\* arrived without.
Violation(seq) ==
    \E i \in 1..Len(seq) :
        LET open == Count(SubSeq(seq, 1, i - 1), "TxnBegin")
                        > Count(SubSeq(seq, 1, i - 1), "TxnEnd")
        IN (seq[i] = "TxnBegin" /\ open) \/ (seq[i] = "TxnEnd" /\ ~open)

Balanced(st, seq) ==
    /\ st # "Invalid" =>
          Count(seq, "TxnBegin") - Count(seq, "TxnEnd") = (IF st = "Init" THEN 0 ELSE 1)
    /\ st = "Invalid" <=> Violation(seq)

\* C10: from Init, a state other than Invalid has seen as many TxnBegin as
\* TxnEnd when it is Init and one more when it is Txn, and the state is
\* Invalid exactly when a TxnBegin arrived in an open transaction or a
\* TxnEnd outside one; the same holds of what predict_final_state returns.
C10_BeginEndBalance ==
    /\ Balanced(state, trace)
    /\ lastOp = "predict" => Balanced(predicted, trace \o lastArg)

C10_Witness ==
    /\ lastOp = "predict" /\ trace = <<"TxnBegin">> /\ state = "Txn"
    /\ lastArg = <<"Write", "TxnEnd">> /\ predicted = "Init"

====
